---- MODULE Spec2Model ----
(***************************************************************************)
(* A model of the cherrymusic storage layer: the Directory / File index    *)
(* that Directory.reindex and Directory.get_sub_path_directories keep      *)
(* against the filesystem (src/cherrymusic/storage/models.py), and the     *)
(* Artist / Genre get-or-create helpers of the same file; the metadata     *)
(* extraction of MetaData and File; the album art lookup of AlbumArtView   *)
(* (src/cherrymusic/api/views.py); and the database steps of get-or-create *)
(* and of path resolution as concurrent requests interleave them.          *)
(*                                                                         *)
(* Text (file names, path segments, tag values) is a sequence of one-      *)
(* character strings, so that lower(), endswith() and name normalisation   *)
(* are computed and not assumed.  A filesystem path is a sequence of       *)
(* names below the base directory; <<>> is the base directory itself.      *)
(***************************************************************************)
EXTENDS Integers, Sequences, FiniteSets, TLC

VARIABLES fs, dirs, files, last, artists, albums, genres, metas, call,
          cache, art, procs

treeVars == <<fs, dirs, files, last>>

metaVars == <<artists, albums, genres, metas, call>>

\* the album art cache and the last album art request
artVars == <<cache, art>>

vars == <<fs, dirs, files, last, artists, albums, genres, metas, call,
          cache, art, procs>>

(*************************** bounds of the model ***************************)
\* ids available to Directory rows besides the base directory's row
MaxDirs == 3
\* ids available to File rows
MaxFiles == 2
\* longest path_elements list handed to get_sub_path_directories
MaxSegs == 2
\* ids available to Artist rows, to Album rows, to Genre rows, to MetaData rows
MaxArtists == 3
MaxAlbums == 2
MaxGenres == 3
MaxMetas == 2

(******************************* text **************************************)
UpperChars == <<"A","B","C","D","E","F","G","H","I","J","K","L","M",
                "N","O","P","Q","R","S","T","U","V","W","X","Y","Z">>

LowerChars == <<"a","b","c","d","e","f","g","h","i","j","k","l","m",
                "n","o","p","q","r","s","t","u","v","w","x","y","z">>

\* str.lower() on one character
LowerChar(c) ==
    IF \E i \in 1..Len(UpperChars) : UpperChars[i] = c
    THEN LowerChars[CHOOSE i \in 1..Len(UpperChars) : UpperChars[i] = c]
    ELSE c

\* str.lower()
Lower(s) == [i \in 1..Len(s) |-> LowerChar(s[i])]

\* str.endswith(suffix)
EndsWith(s, suffix) ==
    /\ Len(suffix) <= Len(s)
    /\ SubSeq(s, Len(s) - Len(suffix) + 1, Len(s)) = suffix

\* settings.SUPPORTED_FILETYPES
SUPPORTED_FILETYPES ==
    { <<"m","p","3">>, <<"o","g","g">>, <<"f","l","a","c">> }

(* the names that occur in the modelled library *)
NameA     == <<"A">>
NameB     == <<"B">>
TrackFlac == <<"t",".","f","l","a","c">>
SongMP3   == <<"S",".","M","P","3">>
CoverJpg  == <<"c",".","j","p","g">>

(***************************** filesystem **********************************)
\* The paths the library may hold, with the entry types each may take:
\* "dir", "file", or "other" (a socket or fifo: it exists, and is neither
\* a regular file nor a directory).  "none" is an absent path.
FsAllowed ==
    ( <<NameA>>            :> {"dir", "file"} ) @@
    ( <<NameA, TrackFlac>> :> {"file"} ) @@
    ( <<NameA, SongMP3>>   :> {"file"} ) @@
    ( <<NameA, NameB>>     :> {"dir"} ) @@
    ( <<CoverJpg>>         :> {"file", "other"} )

FsPaths == DOMAIN FsAllowed

\* the type of the entry at path p; the base directory always exists
FsKind(p) ==
    IF p = <<>> THEN "dir"
    ELSE IF p \in FsPaths THEN fs[p] ELSE "none"

Parent(p) == SubSeq(p, 1, Len(p) - 1)

Children(p) == { q \in FsPaths : Len(q) = Len(p) + 1 /\ Parent(q) = p }


(************************* the Directory / File index **********************)
\* a null foreign key / a missing value (null=True)
None == 0

\* id of the base directory's row, the only Directory without a parent
BaseDirId == 1

DirIds == (BaseDirId + 1)..(BaseDirId + MaxDirs)

FileIds == 1..MaxFiles

BaseDir == [id |-> BaseDirId, parent |-> None, path |-> <<"/">>]

\* the row a foreign key refers to
Row(D, id) == CHOOSE r \in D : r.id = id

\* Directory.absolute_path, relative to the base directory's own path
RECURSIVE absolute_path(_, _)
absolute_path(D, d) ==
    IF d.parent = None
    THEN <<>>
    ELSE absolute_path(D, Row(D, d.parent)) \o <<d.path>>

\* File.absolute_path
file_absolute_path(D, f) ==
    absolute_path(D, Row(D, f.directory)) \o <<f.filename>>

\* Directory.exists: Path.exists() is true of an entry of any type
exists(D, d) == FsKind(absolute_path(D, d)) # "none"

\* File.exists
file_exists(D, f) == FsKind(file_absolute_path(D, f)) # "none"

\* File.indexable without lower(): the suffix is compared as written
indexable_CaseSensitive(filename) ==
    \E t \in SUPPORTED_FILETYPES : EndsWith(filename, t)

\* File.indexable
indexable(filename) ==
    \E t \in SUPPORTED_FILETYPES : EndsWith(Lower(filename), t)

\* Directory(parent=..., path=...) / File(filename=..., directory=...)
NewDirectory(id, parent, path) == [id |-> id, parent |-> parent.id, path |-> path]

NewFile(id, filename, directory) ==
    [id |-> id, filename |-> filename, directory |-> directory.id,
     meta_indexed_at |-> None, meta_data |-> None]

\* the id the database gives the next saved row: the least one not in use
FreeIds(rows, ids) == ids \ { r.id : r \in rows }

NextId(rows, ids) ==
    CHOOSE i \in FreeIds(rows, ids) : \A j \in FreeIds(rows, ids) : i <= j

\* Directory.objects.filter(parent=d, path=path)
DirectoryLookup(D, d, path) == { r \in D : r.parent = d.id /\ r.path = path }

\* File.objects.filter(filename=filename, directory=d)
FileLookup(F, d, filename) ==
    { f \in F : f.directory = d.id /\ f.filename = filename }

\* on_delete=models.PROTECT on Directory.parent and on File.directory:
\* deleting d raises ProtectedError while a row still refers to it
Protected(D, F, d) ==
    \/ \E r \in D : r.parent = d.id
    \/ \E f \in F : f.directory = d.id

(***************************** Directory.reindex ***************************)
\* the counters (deleted_files, deleted_directories, indexed_files,
\* indexed_directories)
Zero4 == <<0, 0, 0, 0>>

Add4(a, b) == [i \in 1..4 |-> a[i] + b[i]]

\* what a call leaves behind: the tables, how it ended ("ok", or the name
\* of the exception that left it; "full" when the id bound stopped it), and
\* the counters it returns
Outcome(D, F, status, cnt) ==
    [dirs |-> D, files |-> F, status |-> status, cnt |-> cnt]

\* StaleFiles without the existence check: every File row of d is removed
StaleFiles_NoExistsCheck(D, F, d) == { f \in F : f.directory = d.id }

\* "remove all stale files": the rows of self.file_set whose path no longer
\* exists.  self.file_set is read as the reverse side of File.directory, the
\* File rows whose directory is self (File.directory names that relation
\* 'files').
StaleFiles(D, F, d) == { f \in F : f.directory = d.id /\ ~file_exists(D, f) }

\* "remove all stale directories": the child rows whose path no longer exists
StaleDirectories(D, d) == { c \in D : c.parent = d.id /\ ~exists(D, c) }

\* Path(self.absolute_path()).iterdir(): the names of the entries of d
iterdir(D, d) ==
    { q[Len(q)] : q \in { c \in Children(absolute_path(D, d)) : fs[c] # "none" } }

\* ScanFile without the lookup of an already indexed file
ScanFile_NoLookup(D, F, d, name) ==
    IF ~indexable(name) THEN Outcome(D, F, "ok", Zero4)
    ELSE IF FreeIds(F, FileIds) = {} THEN Outcome(D, F, "full", Zero4)
    ELSE Outcome(D, F \cup {NewFile(NextId(F, FileIds), name, d)}, "ok",
                 <<0, 0, 1, 0>>)

\* the branch for a regular file: an indexable name is saved unless
\* File.objects.get finds it already indexed
ScanFile(D, F, d, name) ==
    IF ~indexable(name) THEN Outcome(D, F, "ok", Zero4)
    ELSE IF Cardinality(FileLookup(F, d, name)) = 1 THEN Outcome(D, F, "ok", Zero4)
    ELSE IF Cardinality(FileLookup(F, d, name)) > 1
    THEN Outcome(D, F, "MultipleObjectsReturned", Zero4)
    ELSE IF FreeIds(F, FileIds) = {} THEN Outcome(D, F, "full", Zero4)
    ELSE Outcome(D, F \cup {NewFile(NextId(F, FileIds), name, d)}, "ok",
                 <<0, 0, 1, 0>>)

\* Directory.objects.get_or_create(parent=self, path=name)
GetOrCreateDirectory(D, F, d, name) ==
    IF Cardinality(DirectoryLookup(D, d, name)) = 1 THEN Outcome(D, F, "ok", Zero4)
    ELSE IF Cardinality(DirectoryLookup(D, d, name)) > 1
    THEN Outcome(D, F, "MultipleObjectsReturned", Zero4)
    ELSE IF FreeIds(D, DirIds) = {} THEN Outcome(D, F, "full", Zero4)
    ELSE Outcome(D \cup {NewDirectory(NextId(D, DirIds), d, name)}, F, "ok",
                 <<0, 0, 0, 1>>)

\* reindex(D, F, d, recursively) is the set of outcomes of d.reindex(recursively)
\* on the tables D, F: one for each order in which the querysets and
\* iterdir(), whose order is unspecified, may yield their elements.
\* ScanAll is the loop over iterdir() with the entries todo left to visit.
RECURSIVE reindex(_, _, _, _)
RECURSIVE ScanAll(_, _, _, _, _, _)
reindex(D, F, d, recursively) ==
    LET staleF == StaleFiles(D, F, d)
        F1     == F \ staleF
        staleD == StaleDirectories(D, d)
        prot   == { c \in staleD : Protected(D, F1, c) }
        cnt    == <<Cardinality(staleF), Cardinality(staleD), 0, 0>>
        here   == FsKind(absolute_path(D, d))
    IN  IF prot # {}
        THEN \* d.delete() raises at the first protected row the loop meets;
             \* the unprotected rows met before it are gone
             { Outcome(D \ X, F1, "ProtectedError", Zero4) :
                   X \in SUBSET (staleD \ prot) }
        ELSE IF here = "none"
        THEN { Outcome(D \ staleD, F1, "FileNotFoundError", Zero4) }
        ELSE IF here # "dir"
        THEN { Outcome(D \ staleD, F1, "NotADirectoryError", Zero4) }
        ELSE ScanAll(D \ staleD, F1, d, iterdir(D, d), recursively, cnt)

ScanAll(D, F, d, todo, recursively, cnt) ==
    IF todo = {} THEN { Outcome(D, F, "ok", cnt) }
    ELSE UNION {
        LET kind == FsKind(absolute_path(D, d) \o <<name>>)
            rest == todo \ {name}
        IN  IF kind = "file"
            THEN LET o == ScanFile(D, F, d, name)
                 IN  IF o.status # "ok" THEN {o}
                     ELSE ScanAll(o.dirs, o.files, d, rest, recursively,
                                  Add4(cnt, o.cnt))
            ELSE IF kind = "dir"
            THEN LET g == GetOrCreateDirectory(D, F, d, name)
                 IN  IF g.status # "ok" THEN {g}
                     ELSE IF ~recursively
                     THEN ScanAll(g.dirs, g.files, d, rest, recursively,
                                  Add4(cnt, g.cnt))
                     ELSE UNION {
                         IF o.status # "ok" THEN {o}
                         ELSE ScanAll(o.dirs, o.files, d, rest, recursively,
                                      Add4(Add4(cnt, g.cnt), o.cnt))
                         : o \in reindex(g.dirs, g.files,
                                         CHOOSE r \in DirectoryLookup(g.dirs, d, name) : TRUE,
                                         TRUE) }
            ELSE \* 'Unknown filetype': logged and skipped
                 ScanAll(D, F, d, rest, recursively, cnt)
        : name \in todo }

(******************* Directory.get_sub_path_directories ********************)
\* what a call leaves behind: the Directory table, how it ended, and the
\* ids of the rows it returns (root to leaf)
Resolved(D, status, result) == [dirs |-> D, status |-> status, result |-> result]

\* ResolveHop that saves the candidate row before it checks the path
ResolveHop_SaveBeforeCheck(D, d, current) ==
    IF Cardinality(DirectoryLookup(D, d, current)) = 1
    THEN Resolved(D, "ok", <<(CHOOSE r \in DirectoryLookup(D, d, current) : TRUE).id>>)
    ELSE IF Cardinality(DirectoryLookup(D, d, current)) > 1
    THEN Resolved(D, "MultipleObjectsReturned", <<>>)
    ELSE IF FreeIds(D, DirIds) = {} THEN Resolved(D, "full", <<>>)
    ELSE IF FsKind(absolute_path(D, d) \o <<current>>) = "none"
    THEN Resolved(D \cup {NewDirectory(NextId(D, DirIds), d, current)},
                  "FileNotFoundError", <<>>)
    ELSE Resolved(D \cup {NewDirectory(NextId(D, DirIds), d, current)}, "ok",
                  <<NextId(D, DirIds)>>)

\* ResolveHop that saves the candidate row without checking the path
ResolveHop_SaveUnchecked(D, d, current) ==
    IF Cardinality(DirectoryLookup(D, d, current)) = 1
    THEN Resolved(D, "ok", <<(CHOOSE r \in DirectoryLookup(D, d, current) : TRUE).id>>)
    ELSE IF Cardinality(DirectoryLookup(D, d, current)) > 1
    THEN Resolved(D, "MultipleObjectsReturned", <<>>)
    ELSE IF FreeIds(D, DirIds) = {} THEN Resolved(D, "full", <<>>)
    ELSE Resolved(D \cup {NewDirectory(NextId(D, DirIds), d, current)}, "ok",
                  <<NextId(D, DirIds)>>)

\* one hop: the child row of d for path segment current, looked up and, when
\* it is not indexed, saved if its path exists
ResolveHop(D, d, current) ==
    IF Cardinality(DirectoryLookup(D, d, current)) = 1
    THEN Resolved(D, "ok", <<(CHOOSE r \in DirectoryLookup(D, d, current) : TRUE).id>>)
    ELSE IF Cardinality(DirectoryLookup(D, d, current)) > 1
    THEN Resolved(D, "MultipleObjectsReturned", <<>>)
    ELSE IF FsKind(absolute_path(D, d) \o <<current>>) = "none"
    THEN Resolved(D, "FileNotFoundError", <<>>)
    ELSE IF FreeIds(D, DirIds) = {} THEN Resolved(D, "full", <<>>)
    ELSE Resolved(D \cup {NewDirectory(NextId(D, DirIds), d, current)}, "ok",
                  <<NextId(D, DirIds)>>)

RECURSIVE get_sub_path_directories(_, _, _)
get_sub_path_directories(D, d, path_elements) ==
    LET current == Head(path_elements)
        rest    == Tail(path_elements)
        hop     == ResolveHop(D, d, current)
    IN  IF hop.status # "ok" THEN hop
        ELSE IF rest = <<>> THEN hop
        ELSE LET sub == get_sub_path_directories(hop.dirs, Row(hop.dirs, hop.result[1]), rest)
             IN  IF sub.status # "ok" THEN Resolved(sub.dirs, sub.status, <<>>)
                 ELSE Resolved(sub.dirs, "ok", hop.result \o sub.result)

(********************** Artist, Album, Genre, MetaData **********************)
\* a tag field or argument that is None
NoText == <<"None">>

\* Python's truth value of a text: None and '' are false
Truthy(text) == text # NoText /\ text # <<>>

IsSpace(c) == c = " "

RECURSIVE LStrip(_)
LStrip(s) ==
    IF s = <<>> THEN <<>>
    ELSE IF IsSpace(Head(s)) THEN LStrip(Tail(s)) ELSE s

\* leading and trailing whitespace dropped, inner runs of it made one space
RECURSIVE Collapse(_)
Collapse(s) ==
    IF s = <<>> THEN <<>>
    ELSE IF IsSpace(Head(s))
    THEN IF LStrip(s) = <<>> THEN <<>> ELSE <<" ">> \o Collapse(LStrip(s))
    ELSE <<Head(s)>> \o Collapse(Tail(s))

\* utils.natural_language.normalize_name: case folding and whitespace
\* collapse; empty or whitespace-only text normalizes to the empty text
normalize_name(name) == Collapse(LStrip(Lower(name)))

ArtistIds == 1..MaxArtists

AlbumIds == 1..MaxAlbums

GenreIds == 1..MaxGenres

MetaIds == 1..MaxMetas

\* what a get_for_name call leaves behind: its table, how it ended, the id
\* of the row it returns (None for no row), and whether it inserted a row
Got(rows, status, ret, created) ==
    [rows |-> rows, status |-> status, ret |-> ret, created |-> created]

\* Artist.save: norm_name is recomputed from name
ArtistSave(id, name, norm_name) ==
    [id |-> id, name |-> name, norm_name |-> normalize_name(name)]

\* ArtistLookup by the display name instead of the normalized key
ArtistLookup_ByName(A, name) == { a \in A : a.name = name }

\* cls.objects.filter(norm_name=norm_name)
ArtistLookup(A, name) == { a \in A : a.norm_name = normalize_name(name) }

\* Artist.get_for_name
ArtistGetForName(A, name) ==
    IF ~Truthy(name) THEN Got(A, "ok", None, FALSE)
    ELSE IF ~Truthy(normalize_name(name)) THEN Got(A, "ok", None, FALSE)
    ELSE IF Cardinality(ArtistLookup(A, name)) = 1
    THEN Got(A, "ok", (CHOOSE a \in ArtistLookup(A, name) : TRUE).id, FALSE)
    ELSE IF Cardinality(ArtistLookup(A, name)) > 1
    THEN Got(A, "MultipleObjectsReturned", None, FALSE)
    ELSE IF FreeIds(A, ArtistIds) = {} THEN Got(A, "full", None, FALSE)
    ELSE Got(A \cup {ArtistSave(NextId(A, ArtistIds), name, normalize_name(name))},
             "ok", NextId(A, ArtistIds), TRUE)

\* Genre.save: name is normalized
GenreSave(id, name) == [id |-> id, name |-> normalize_name(name)]

\* Genre.get_for_name
GenreGetForName(G, genre) ==
    LET found == { g \in G : g.name = normalize_name(genre) }
    IN  IF Cardinality(found) = 1
        THEN Got(G, "ok", (CHOOSE g \in found : TRUE).id, FALSE)
        ELSE IF Cardinality(found) > 1
        THEN Got(G, "MultipleObjectsReturned", None, FALSE)
        ELSE IF FreeIds(G, GenreIds) = {} THEN Got(G, "full", None, FALSE)
        ELSE Got(G \cup {GenreSave(NextId(G, GenreIds), normalize_name(genre))},
                 "ok", NextId(G, GenreIds), TRUE)

\* Album.get_for_name: looked up by the literal name and the album artist
AlbumGetForName(B, album, albumartist) ==
    LET found == { b \in B : b.name = album /\ b.albumartist = albumartist }
    IN  IF Cardinality(found) = 1
        THEN Got(B, "ok", (CHOOSE b \in found : TRUE).id, FALSE)
        ELSE IF Cardinality(found) > 1
        THEN Got(B, "MultipleObjectsReturned", None, FALSE)
        ELSE IF FreeIds(B, AlbumIds) = {} THEN Got(B, "full", None, FALSE)
        ELSE Got(B \cup {[id |-> NextId(B, AlbumIds), name |-> album,
                          albumartist |-> albumartist]},
                 "ok", NextId(B, AlbumIds), TRUE)

Digits == <<"0","1","2","3","4","5","6","7","8","9">>

IsDigit(c) == \E i \in 1..Len(Digits) : Digits[i] = c

DigitValue(c) == (CHOOSE i \in 1..Len(Digits) : Digits[i] = c) - 1

\* int(text) succeeds on a text of decimal digits
IsInt(text) == text # <<>> /\ \A i \in 1..Len(text) : IsDigit(text[i])

RECURSIVE IntValue(_)
IntValue(text) ==
    IF text = <<>> THEN 0
    ELSE 10 * IntValue(SubSeq(text, 1, Len(text) - 1)) + DigitValue(text[Len(text)])

\* the fields "int(tag.x) if tag.x else None" raises ValueError on
BadInt(text) == Truthy(text) /\ ~IsInt(text)

IntOrNone(text) == IF Truthy(text) THEN IntValue(text) ELSE None

\* what MetaData.create_from_path leaves behind: the four tables, how it
\* ended, and the id of the MetaData row it returns (None for no row)
Extracted(A, B, G, M, status, ret) ==
    [artists |-> A, albums |-> B, genres |-> G, metas |-> M,
     status |-> status, ret |-> ret]

\* MetaData.create_from_path after TinyTag.get has returned tag
create_from_tag(A, B, G, M, tag) ==
    LET artist      == ArtistGetForName(A, tag.artist)
        albumartist == ArtistGetForName(artist.rows, tag.albumartist)
        A2          == albumartist.rows
        album       == IF Truthy(tag.album)
                       THEN AlbumGetForName(B, tag.album,
                                IF albumartist.ret # None THEN albumartist.ret
                                ELSE artist.ret)
                       ELSE Got(B, "ok", None, FALSE)
        genre       == IF Truthy(tag.genre)
                       THEN GenreGetForName(G, tag.genre)
                       ELSE Got(G, "ok", None, FALSE)
    IN  IF artist.status # "ok" THEN Extracted(A, B, G, M, artist.status, None)
        ELSE IF albumartist.status # "ok"
        THEN Extracted(artist.rows, B, G, M, albumartist.status, None)
        ELSE IF album.status # "ok"
        THEN Extracted(A2, B, G, M, album.status, None)
        ELSE IF genre.status # "ok"
        THEN Extracted(A2, album.rows, G, M, genre.status, None)
        ELSE IF BadInt(tag.track) \/ BadInt(tag.track_total) \/ BadInt(tag.year)
        THEN Extracted(A2, album.rows, genre.rows, M, "ValueError", None)
        ELSE IF FreeIds(M, MetaIds) = {}
        THEN Extracted(A2, album.rows, genre.rows, M, "full", None)
        ELSE Extracted(A2, album.rows, genre.rows,
                 M \cup {[id          |-> NextId(M, MetaIds),
                          track       |-> IntOrNone(tag.track),
                          track_total |-> IntOrNone(tag.track_total),
                          title       |-> tag.title,
                          artist      |-> artist.ret,
                          album       |-> album.ret,
                          year        |-> IntOrNone(tag.year),
                          genre       |-> genre.ret,
                          duration    |-> tag.duration]},
                 "ok", NextId(M, MetaIds))

\* create_from_path without the except clause around TinyTag.get
create_from_path_NoExcept(A, B, G, M, tag) ==
    IF ~tag.readable THEN Extracted(A, B, G, M, "TinyTagException", None)
    ELSE create_from_tag(A, B, G, M, tag)

\* MetaData.create_from_path on a file whose tags TinyTag.get reads as tag;
\* on a tag that is not readable TinyTag.get raises TinyTagException
create_from_path(A, B, G, M, tag) ==
    IF ~tag.readable THEN Extracted(A, B, G, M, "ok", None)
    ELSE create_from_tag(A, B, G, M, tag)

\* timezone.now() as File.meta_indexed_at stores it: a date that is not null
timezone_now == 1

\* what a metadata indexing call leaves behind: the File table, the four
\* metadata tables, how it ended, and how many extractions it has run
Indexed(F, A, B, G, M, status, extractions) ==
    [files |-> F, artists |-> A, albums |-> B, genres |-> G, metas |-> M,
     status |-> status, extractions |-> extractions]

\* f.update_metadata(), the file of f carrying tag: an exception of
\* create_from_path leaves before the row of f is assigned and saved
update_metadata(F, f, A, B, G, M, tag) ==
    LET o == create_from_path(A, B, G, M, tag)
    IN  IF o.status # "ok"
        THEN Indexed(F, o.artists, o.albums, o.genres, o.metas, o.status, 1)
        ELSE Indexed({ r \in F : r.id # f.id }
                       \cup {[f EXCEPT !.meta_data = o.ret,
                                       !.meta_indexed_at = timezone_now]},
                     o.artists, o.albums, o.genres, o.metas, "ok", 1)

\* the loop of File.index_unindexed_metadata over the rows in todo, which
\* the query returns in no stated order: the set of outcomes it can have
RECURSIVE index_unindexed_metadata(_, _, _, _, _, _, _, _)
index_unindexed_metadata(F, A, B, G, M, todo, tags, n) ==
    IF todo = {} THEN { Indexed(F, A, B, G, M, "ok", n) }
    ELSE UNION {
           UNION {
             IF o.status # "ok"
             THEN { Indexed(o.files, o.artists, o.albums, o.genres, o.metas,
                            o.status, n + 1) }
             ELSE index_unindexed_metadata(o.files, o.artists, o.albums,
                      o.genres, o.metas, todo \ {f}, tags, n + 1)
             : o \in { update_metadata(F, f, A, B, G, M, tag) } }
           : f \in todo, tag \in tags }

(******************************* AlbumArtView ******************************)
\* the '..' that get appends to the path of a file
DotDot == <<".", ".">>

\* the folder of the album art cache
ArtFolder == <<"a", "r", "t">>

\* pathprovider.albumArtFilePath: the cache file of a path, named after the
\* text of the path it is given
albumArtFilePath(path) == <<ArtFolder>> \o path

\* image bytes: where they come from and the path they were made for
Image(kind, path) == [kind |-> kind, path |-> path]

NoImage == Image("none", <<>>)

\* os.path.exists(file_cache_path)
CacheHas(c, file_cache_path) == \E e \in c : e.path = file_cache_path

\* open(file_cache_path, 'rb').read()
CacheRead(c, file_cache_path) == (CHOOSE e \in c : e.path = file_cache_path).data

\* open(file_cache_path, 'wb').write(data)
CacheWrite(c, file_cache_path, data) ==
    { e \in c : e.path # file_cache_path }
        \cup {[path |-> file_cache_path, data |-> data]}

\* os.path.basename(file_path)
basename(path) == IF path = <<>> THEN <<"/">> ELSE path[Len(path)]

\* config.get(key, default) on a configuration that is a set of options
config_get(config, key, default) ==
    IF \E o \in config : o.key = key
    THEN (CHOOSE o \in config : o.key = key).value
    ELSE default

FetchAlbumArt == "media.fetch_album_art"

\* what a request for album art leaves behind: the cache, how it ended, the
\* image it returns, the sources it has consulted, the path it ended up
\* looking at and the keywords it has handed to the online source
ArtOut(c, status, data, steps, file_path, keywords) ==
    [cache |-> c, status |-> status, data |-> data, steps |-> steps,
     file_path |-> file_path, keywords |-> keywords]

\* the online branch without the try / except around it
FetchOnline_NoExcept(c, file_path, online, config) ==
    IF ~config_get(config, FetchAlbumArt, FALSE)
    THEN ArtOut(c, "Http404", NoImage, {}, file_path, NoText)
    ELSE IF online = "error"
    THEN ArtOut(c, "FetchError", NoImage, {"online"}, file_path, basename(file_path))
    ELSE IF online = "none"
    THEN ArtOut(c, "Http404", NoImage, {"online"}, file_path, basename(file_path))
    ELSE ArtOut(CacheWrite(c, albumArtFilePath(file_path), Image("online", file_path)),
                "ok", Image("online", file_path), {"online"}, file_path,
                basename(file_path))

\* the branch "elif config.get('media.fetch_album_art', False)" and the
\* final raise Http404(): fetcher.fetch(keywords) raises (online = "error"),
\* returns no header ("none") or returns an image ("hit")
FetchOnline(c, file_path, online, config) ==
    IF ~config_get(config, FetchAlbumArt, FALSE)
    THEN ArtOut(c, "Http404", NoImage, {}, file_path, NoText)
    ELSE IF online = "error"
    THEN ArtOut(c, "Http404", NoImage, {"online"}, file_path, basename(file_path))
    ELSE IF online = "none"
    THEN ArtOut(c, "Http404", NoImage, {"online"}, file_path, basename(file_path))
    ELSE ArtOut(CacheWrite(c, albumArtFilePath(file_path), Image("online", file_path)),
                "ok", Image("online", file_path), {"online"}, file_path,
                basename(file_path))

\* FetchCached that writes every local hit to the cache
FetchCached_WriteAlways(c, file_path, local, online, config) ==
    IF CacheHas(c, albumArtFilePath(file_path))
    THEN ArtOut(c, "ok", CacheRead(c, albumArtFilePath(file_path)), {"cache"},
                file_path, NoText)
    ELSE IF local # "none"
    THEN ArtOut(CacheWrite(c, albumArtFilePath(file_path), Image(local, file_path)),
                "ok", Image(local, file_path), {"cache", "local"}, file_path, NoText)
    ELSE LET o == FetchOnline(c, file_path, online, config)
         IN  [o EXCEPT !.steps = @ \cup {"cache", "local"}]

\* the part of get that follows the embedded image: the cache file of
\* file_path, then fetcher.fetchLocal(file_path), which finds nothing
\* (local = "none"), an image as it is ("cover") or one it had to resize
\* ("resized"), then the online branch
FetchCached(c, file_path, local, online, config) ==
    IF CacheHas(c, albumArtFilePath(file_path))
    THEN ArtOut(c, "ok", CacheRead(c, albumArtFilePath(file_path)), {"cache"},
                file_path, NoText)
    ELSE IF local = "resized"
    THEN ArtOut(CacheWrite(c, albumArtFilePath(file_path), Image(local, file_path)),
                "ok", Image(local, file_path), {"cache", "local"}, file_path, NoText)
    ELSE IF local = "cover"
    THEN ArtOut(c, "ok", Image(local, file_path), {"cache", "local"}, file_path, NoText)
    ELSE LET o == FetchOnline(c, file_path, online, config)
         IN  [o EXCEPT !.steps = @ \cup {"cache", "local"}]

\* AlbumArtView.get that never looks for an embedded image
AlbumArtView_get_NoEmbedded(c, path, image, local, online, config) ==
    IF FsKind(path) = "none"
    THEN ArtOut(c, "NotFound", NoImage, {}, path, NoText)
    ELSE IF FsKind(path) = "file"
    THEN FetchCached(c, path \o <<DotDot>>, local, online, config)
    ELSE FetchCached(c, path, local, online, config)

\* AlbumArtView.get(request, path): TinyTag.get on the file at path raises
\* TinyTagException (image = "unreadable"), or returns a tag without an
\* image ("none") or with one ("image")
AlbumArtView_get(c, path, image, local, online, config) ==
    IF FsKind(path) = "none"
    THEN ArtOut(c, "NotFound", NoImage, {}, path, NoText)
    ELSE IF FsKind(path) = "file"
    THEN IF image = "unreadable"
         THEN ArtOut(c, "TinyTagException", NoImage, {"embedded"}, path, NoText)
         ELSE IF image = "image"
         THEN ArtOut(c, "ok", Image("embedded", path), {"embedded"}, path, NoText)
         ELSE LET o == FetchCached(c, path \o <<DotDot>>, local, online, config)
              IN  [o EXCEPT !.steps = @ \cup {"embedded"}]
    ELSE FetchCached(c, path, local, online, config)

(******************************* requests **********************************)
\* the requests that run side by side
MaxProcs == 2

Procs == 1..MaxProcs

\* a request: where it stands, the operation it runs, the text it was
\* called with, the Directory row it works below, and the row it returns
Proc(pc, op, arg, at, ret) ==
    [pc |-> pc, op |-> op, arg |-> arg, at |-> at, ret |-> ret]

Idle == Proc("idle", "none", NoText, None, None)

(***************************** the state machine ***************************)
\* the operation that led to the current state, with its arguments and what
\* it returned or raised.  changed tells whether the call changed a table.
\* repeats is "no" unless the call is a reindex that follows a reindex of the
\* same node with the same arguments directly (no operation and no change of
\* the filesystem in between); it then holds how that earlier call ended.
Last(op, node, recursively, segs, status, cnt, result, changed, repeats) ==
    [op |-> op, node |-> node, recursively |-> recursively, segs |-> segs,
     status |-> status, cnt |-> cnt, result |-> result, changed |-> changed,
     repeats |-> repeats]

NoCall(op) == Last(op, None, FALSE, <<>>, "ok", Zero4, <<>>, FALSE, "no")

\* the segments a caller asks for: a directory, a name found only below it,
\* and the name of a regular file
SegNames == {NameA, NameB, TrackFlac}

PathElements == UNION { [1..n -> SegNames] : n \in 1..MaxSegs }

\* the call of the metadata layer that led to the current state: its
\* argument, how it ended, the id it returned, whether it inserted its row
Called(op, arg, status, ret, created) ==
    [op |-> op, arg |-> arg, status |-> status, ret |-> ret, created |-> created]

\* the last request for album art: its arguments and what it left behind
Art(op, path, image, local, online, config, o) ==
    [op |-> op, path |-> path, image |-> image, local |-> local,
     online |-> online, config |-> config, status |-> o.status,
     data |-> o.data, steps |-> o.steps, file_path |-> o.file_path,
     keywords |-> o.keywords]

NoArt == Art("init", <<>>, "none", "none", "none", {},
             ArtOut({}, "ok", NoImage, {}, <<>>, NoText))

\* the paths album art is asked for: the base directory, a directory, a
\* track in it, and a path that is not on disk
ArtPaths == { <<>>, <<NameA>>, <<NameA, TrackFlac>>, <<NameA, NameB>> }

\* the configurations: the option unset, disabled, enabled
Configs ==
    { {}, {[key |-> FetchAlbumArt, value |-> FALSE]},
      {[key |-> FetchAlbumArt, value |-> TRUE]} }

\* the names callers pass and tags carry
TagTexts == { NoText, <<>>, <<" ">>, <<"A">>, <<"a">>, <<" ", "a", " ">>, <<"R">> }

Tag(readable, artist, albumartist, album, genre, track, year) ==
    [readable |-> readable, artist |-> artist, albumartist |-> albumartist, album |-> album,
     genre |-> genre, track |-> track, track_total |-> NoText, year |-> year,
     title |-> <<"T">>, duration |-> 180]

\* the tags of the files extraction is run on; the first is an unreadable file
Tags ==
    { Tag(FALSE, NoText, NoText, NoText, NoText, NoText, NoText),
      Tag(TRUE, <<"A">>, NoText, <<"X">>, <<"R">>, <<"7">>, <<"1","9","9","9">>),
      Tag(TRUE, <<" ", "a", " ">>, <<"R">>, <<"X">>, <<" ">>, NoText, NoText),
      Tag(TRUE, <<" ">>, NoText, NoText, <<>>, <<"x">>, NoText) }

Init ==
    /\ fs = [p \in FsPaths |-> "none"]
    /\ dirs = {BaseDir}
    /\ files = {}
    /\ last = NoCall("init")
    /\ artists = {}
    /\ albums = {}
    /\ genres = {}
    /\ metas = {}
    /\ call = Called("init", NoText, "ok", None, FALSE)
    /\ cache = {}
    /\ art = NoArt
    /\ procs = [p \in Procs |-> Idle]

\* the library's owner creates an entry in an existing directory
FsCreate(p, kind) ==
    /\ fs[p] = "none"
    /\ FsKind(Parent(p)) = "dir"
    /\ kind \in FsAllowed[p]
    /\ fs' = [fs EXCEPT ![p] = kind]
    /\ last' = NoCall("fs")
    /\ UNCHANGED <<dirs, files>>
    /\ UNCHANGED metaVars
    /\ UNCHANGED <<artVars, procs>>

\* the library's owner removes a file or an empty directory
FsRemove(p) ==
    /\ fs[p] # "none"
    /\ \A q \in Children(p) : fs[q] = "none"
    /\ fs' = [fs EXCEPT ![p] = "none"]
    /\ last' = NoCall("fs")
    /\ UNCHANGED <<dirs, files>>
    /\ UNCHANGED metaVars
    /\ UNCHANGED <<artVars, procs>>

\* d.reindex(recursively)
Reindex(d, recursively) ==
    \E o \in reindex(dirs, files, d, recursively) :
        /\ o.status # "full"
        /\ dirs' = o.dirs
        /\ files' = o.files
        /\ last' = Last("reindex", d.id, recursively, <<>>, o.status, o.cnt, <<>>,
                        o.dirs # dirs \/ o.files # files,
                        IF /\ last.op = "reindex"
                           /\ last.node = d.id
                           /\ last.recursively = recursively
                        THEN last.status ELSE "no")
        /\ UNCHANGED fs
        /\ UNCHANGED metaVars
        /\ UNCHANGED <<artVars, procs>>

\* basedir.get_sub_path_directories(path_elements), as the views call it
Resolve(d, path_elements) ==
    LET o == get_sub_path_directories(dirs, d, path_elements)
    IN  /\ o.status # "full"
        /\ dirs' = o.dirs
        /\ last' = Last("resolve", d.id, FALSE, path_elements, o.status, Zero4,
                        o.result, o.dirs # dirs, "no")
        /\ UNCHANGED <<fs, files>>
        /\ UNCHANGED metaVars
        /\ UNCHANGED <<artVars, procs>>

\* Artist.get_for_name(name)
GetOrCreateArtist(name) ==
    LET o == ArtistGetForName(artists, name)
    IN  /\ o.status # "full"
        /\ artists' = o.rows
        /\ call' = Called("artist", name, o.status, o.ret, o.created)
        /\ UNCHANGED <<albums, genres, metas>>
        /\ UNCHANGED treeVars
        /\ UNCHANGED <<artVars, procs>>

\* Genre.get_for_name(genre)
GetOrCreateGenre(genre) ==
    LET o == GenreGetForName(genres, genre)
    IN  /\ o.status # "full"
        /\ genres' = o.rows
        /\ call' = Called("genre", genre, o.status, o.ret, o.created)
        /\ UNCHANGED <<artists, albums, metas>>
        /\ UNCHANGED treeVars
        /\ UNCHANGED <<artVars, procs>>

\* MetaData.create_from_path(path), the file at path carrying tag
CreateFromPath(tag) ==
    LET o == create_from_path(artists, albums, genres, metas, tag)
    IN  /\ o.status # "full"
        /\ artists' = o.artists
        /\ albums' = o.albums
        /\ genres' = o.genres
        /\ metas' = o.metas
        /\ call' = Called("extract", tag, o.status, o.ret, o.ret # None)
        /\ UNCHANGED treeVars
        /\ UNCHANGED <<artVars, procs>>

\* File.index_unindexed_metadata(), each file carrying one of Tags; ret
\* holds the number of extractions the run has made
IndexUnindexedMetadata ==
    \E o \in index_unindexed_metadata(files, artists, albums, genres, metas,
                 { f \in files : f.meta_indexed_at = None }, Tags, 0) :
        /\ o.status # "full"
        /\ files' = o.files
        /\ artists' = o.artists
        /\ albums' = o.albums
        /\ genres' = o.genres
        /\ metas' = o.metas
        /\ call' = Called("index", NoText, o.status, o.extractions, FALSE)
        /\ last' = NoCall("index")
        /\ UNCHANGED <<fs, dirs>>
        /\ UNCHANGED <<artVars, procs>>

NextMeta ==
    \/ \E name \in TagTexts : GetOrCreateArtist(name)
    \/ \E genre \in TagTexts \ {NoText} : GetOrCreateGenre(genre)
    \/ \E tag \in Tags : CreateFromPath(tag)

SpecMeta == Init /\ [][NextMeta]_vars

\* a library on disk that has not been indexed: a directory with one track
InitLibrary ==
    /\ fs = [p \in FsPaths |->
               IF p = <<NameA>> THEN "dir"
               ELSE IF p = <<NameA, TrackFlac>> THEN "file" ELSE "none"]
    /\ dirs = {BaseDir}
    /\ files = {}
    /\ last = NoCall("init")
    /\ artists = {}
    /\ albums = {}
    /\ genres = {}
    /\ metas = {}
    /\ call = Called("init", NoText, "ok", None, FALSE)
    /\ cache = {}
    /\ art = NoArt
    /\ procs = [p \in Procs |-> Idle]

NextIndex ==
    \/ FsCreate(<<NameA, SongMP3>>, "file")
    \/ \E d \in dirs, recursively \in BOOLEAN : Reindex(d, recursively)
    \/ IndexUnindexedMetadata

SpecIndex == InitLibrary /\ [][NextIndex]_vars

\* AlbumArtView.get(request, path)
AlbumArt(path, image, local, online, config) ==
    LET o == AlbumArtView_get(cache, path, image, local, online, config)
    IN  /\ cache' = o.cache
        /\ art' = Art("art", path, image, local, online, config, o)
        /\ UNCHANGED <<treeVars, metaVars, procs>>

NextArt ==
    \E path \in ArtPaths, image \in {"unreadable", "none", "image"},
       local \in {"none", "cover", "resized"},
       online \in {"error", "none", "hit"}, config \in Configs :
        AlbumArt(path, image, local, online, config)

SpecArt == InitLibrary /\ [][NextArt]_vars

\* the create half of get_or_create under a unique index on norm_name
ArtistCreate_Unique(A, name) ==
    IF ArtistLookup(A, name) # {} THEN A
    ELSE A \cup {ArtistSave(NextId(A, ArtistIds), name, normalize_name(name))}

\* the create half of Artist.objects.get_or_create: Artist has no unique
\* field, so the insert succeeds whatever rows the table holds by then
ArtistCreate(A, name) ==
    A \cup {ArtistSave(NextId(A, ArtistIds), name, normalize_name(name))}

\* the names concurrent requests pass: two spellings of one normalized key
\* and a name that normalizes to the empty text
RaceNames == { <<"A">>, <<"a">>, <<" ">> }

\* request p enters Artist.get_for_name(name): the two guards and then the
\* get half of get_or_create, one query
ArtistGet(p, name) ==
    /\ procs[p].pc = "idle"
    /\ procs' = [procs EXCEPT ![p] =
          IF ~Truthy(name) \/ ~Truthy(normalize_name(name))
          THEN Proc("done", "artist", name, None, None)
          ELSE IF Cardinality(ArtistLookup(artists, name)) = 1
          THEN Proc("done", "artist", name, None,
                    (CHOOSE a \in ArtistLookup(artists, name) : TRUE).id)
          ELSE IF Cardinality(ArtistLookup(artists, name)) > 1
          THEN Proc("MultipleObjectsReturned", "artist", name, None, None)
          ELSE Proc("create", "artist", name, None, None)]
    /\ UNCHANGED <<treeVars, metaVars, artVars>>

\* request p, whose get found no row, runs the create half
ArtistInsert(p) ==
    /\ procs[p].pc = "create"
    /\ procs[p].op = "artist"
    /\ FreeIds(artists, ArtistIds) # {}
    /\ artists' = ArtistCreate(artists, procs[p].arg)
    /\ procs' = [procs EXCEPT ![p] =
          Proc("done", "artist", procs[p].arg, None, NextId(artists, ArtistIds))]
    /\ UNCHANGED <<albums, genres, metas, call>>
    /\ UNCHANGED <<treeVars, artVars>>

\* request p returns or raises, and its worker is free for the next request
Return(p) ==
    /\ procs[p].pc \in {"done", "MultipleObjectsReturned", "FileNotFoundError",
                        "ProtectedError", "NotADirectoryError"}
    /\ procs' = [procs EXCEPT ![p] = Idle]
    /\ UNCHANGED <<treeVars, metaVars, artVars>>

NextArtistRace ==
    \/ \E p \in Procs, name \in RaceNames : ArtistGet(p, name)
    \/ \E p \in Procs : ArtistInsert(p)
    \/ \E p \in Procs : Return(p)

SpecArtistRace == Init /\ [][NextArtistRace]_vars

\* request p enters basedir.get_sub_path_directories([current]): the query
\* Directory.objects.get(parent=self, path=current)
ResolveGet(p, current) ==
    /\ procs[p].pc = "idle"
    /\ procs' = [procs EXCEPT ![p] =
          IF Cardinality(DirectoryLookup(dirs, BaseDir, current)) = 1
          THEN Proc("done", "resolve", current, BaseDirId,
                    (CHOOSE r \in DirectoryLookup(dirs, BaseDir, current) : TRUE).id)
          ELSE IF Cardinality(DirectoryLookup(dirs, BaseDir, current)) > 1
          THEN Proc("MultipleObjectsReturned", "resolve", current, BaseDirId, None)
          ELSE Proc("check", "resolve", current, BaseDirId, None)]
    /\ UNCHANGED <<treeVars, metaVars, artVars>>

\* request p, whose query found no row, checks the path of its candidate row
ResolveCheck(p) ==
    /\ procs[p].pc = "check"
    /\ procs' = [procs EXCEPT ![p] =
          IF FsKind(absolute_path(dirs, BaseDir) \o <<procs[p].arg>>) = "none"
          THEN Proc("FileNotFoundError", "resolve", procs[p].arg, BaseDirId, None)
          ELSE Proc("save", "resolve", procs[p].arg, BaseDirId, None)]
    /\ UNCHANGED <<treeVars, metaVars, artVars>>

\* request p saves its candidate row
ResolveSave(p) ==
    /\ procs[p].pc = "save"
    /\ FreeIds(dirs, DirIds) # {}
    /\ dirs' = dirs \cup {NewDirectory(NextId(dirs, DirIds), BaseDir, procs[p].arg)}
    /\ procs' = [procs EXCEPT ![p] =
          Proc("done", "resolve", procs[p].arg, BaseDirId, NextId(dirs, DirIds))]
    /\ UNCHANGED <<fs, files, last>>
    /\ UNCHANGED <<metaVars, artVars>>

\* request p enters basedir.reindex(): the two loops that remove stale rows
PruneStale(p) ==
    /\ procs[p].pc = "idle"
    /\ files' = files \ StaleFiles(dirs, files, BaseDir)
    /\ IF \E c \in StaleDirectories(dirs, BaseDir) : Protected(dirs, files', c)
       THEN /\ dirs' = dirs
            /\ procs' = [procs EXCEPT ![p] =
                  Proc("ProtectedError", "reindex", NoText, BaseDirId, None)]
       ELSE /\ dirs' = dirs \ StaleDirectories(dirs, BaseDir)
            /\ procs' = [procs EXCEPT ![p] =
                  Proc("scan", "reindex", NoText, BaseDirId, None)]
    /\ UNCHANGED <<fs, last>>
    /\ UNCHANGED <<metaVars, artVars>>

\* request p meets the sub directory name in iterdir(): the get half of
\* Directory.objects.get_or_create(parent=self, path=name)
ScanGet(p, name) ==
    /\ procs[p].pc = "scan"
    /\ name \in iterdir(dirs, BaseDir)
    /\ FsKind(absolute_path(dirs, BaseDir) \o <<name>>) = "dir"
    /\ procs' = [procs EXCEPT ![p] =
          IF Cardinality(DirectoryLookup(dirs, BaseDir, name)) = 1
          THEN Proc("recurse", "reindex", name, BaseDirId,
                    (CHOOSE r \in DirectoryLookup(dirs, BaseDir, name) : TRUE).id)
          ELSE IF Cardinality(DirectoryLookup(dirs, BaseDir, name)) > 1
          THEN Proc("MultipleObjectsReturned", "reindex", name, BaseDirId, None)
          ELSE Proc("create", "reindex", name, BaseDirId, None)]
    /\ UNCHANGED <<treeVars, metaVars, artVars>>

\* request p, whose get found no row, runs the create half
ScanCreate(p) ==
    /\ procs[p].pc = "create"
    /\ procs[p].op = "reindex"
    /\ FreeIds(dirs, DirIds) # {}
    /\ dirs' = dirs \cup {NewDirectory(NextId(dirs, DirIds), BaseDir, procs[p].arg)}
    /\ procs' = [procs EXCEPT ![p] =
          Proc("recurse", "reindex", procs[p].arg, BaseDirId, NextId(dirs, DirIds))]
    /\ UNCHANGED <<fs, files, last>>
    /\ UNCHANGED <<metaVars, artVars>>

\* request p runs sub_dir.reindex() on the row it got or created (taken as
\* one step), which ends the loop over the entries of the base directory
ScanRecurse(p) ==
    /\ procs[p].pc = "recurse"
    /\ \E r \in dirs :
          /\ r.id = procs[p].ret
          /\ \E o \in reindex(dirs, files, r, TRUE) :
                /\ o.status # "full"
                /\ dirs' = o.dirs
                /\ files' = o.files
                /\ procs' = [procs EXCEPT ![p] =
                      Proc(IF o.status = "ok" THEN "done" ELSE o.status,
                           "reindex", procs[p].arg, BaseDirId, procs[p].ret)]
    /\ UNCHANGED <<fs, last>>
    /\ UNCHANGED <<metaVars, artVars>>

NextDirRace ==
    \/ \E p \in Procs, current \in {NameA, NameB} : ResolveGet(p, current)
    \/ \E p \in Procs : ResolveCheck(p)
    \/ \E p \in Procs : ResolveSave(p)
    \/ \E p \in Procs : PruneStale(p)
    \/ \E p \in Procs, name \in SegNames : ScanGet(p, name)
    \/ \E p \in Procs : ScanCreate(p)
    \/ \E p \in Procs : ScanRecurse(p)
    \/ \E p \in Procs : Return(p)

SpecDirRace == InitLibrary /\ [][NextDirRace]_vars

Next ==
    \/ \E p \in FsPaths, kind \in {"dir", "file", "other"} : FsCreate(p, kind)
    \/ \E p \in FsPaths : FsRemove(p)
    \/ \E d \in dirs, recursively \in BOOLEAN : Reindex(d, recursively)
    \/ \E path_elements \in PathElements : Resolve(BaseDir, path_elements)

Spec == Init /\ [][Next]_vars

(************************ vocabulary of the properties **********************)
\* the row the last operation was called on
LastNode(D) == Row(D, last.node)

\* r lies below n in the index: n is reached from r along parent references
RECURSIVE IsBelow(_, _, _)
IsBelow(D, r, n) ==
    /\ r.parent # None
    /\ \/ r.parent = n.id
       \/ IsBelow(D, Row(D, r.parent), n)

\* the Directory rows and the File rows indexed below n
DirsBelow(D, n) == { r \in D : IsBelow(D, r, n) }

FilesBelow(D, F, n) ==
    { f \in F : f.directory = n.id \/ IsBelow(D, Row(D, f.directory), n) }

\* the rows below n whose backing path is not on disk
StaleBelow(D, F, n) ==
    { r \in DirsBelow(D, n) : FsKind(absolute_path(D, r)) = "none" }
    \cup { f \in FilesBelow(D, F, n) : FsKind(file_absolute_path(D, f)) = "none" }

\* this step is a call of reindex on a node that is a directory on disk
ReindexStep ==
    /\ last'.op = "reindex"
    /\ FsKind(absolute_path(dirs, Row(dirs, last'.node))) = "dir"

(********************************** C1 *************************************)
\* the last operation was a reindex of a node that is a directory on disk
ReindexDone ==
    /\ last.op = "reindex"
    /\ FsKind(absolute_path(dirs, LastNode(dirs))) = "dir"

\* C1: reconcile called twice in a row on the same node, with no filesystem
\* change in between, returns (0,0,0,0) the second time and leaves the
\* Directory and File rows as the first call left them - for any index state.
C1_Idempotent ==
    (ReindexDone /\ last.repeats # "no")
        => (last.status = "ok" /\ last.cnt = Zero4 /\ ~last.changed)

\* The same, for a first call that returned: the only runs that refute C1
\* are those in which the first call raised.
C1_IdempotentAfterReturn ==
    (ReindexDone /\ last.repeats = "ok")
        => (last.status = "ok" /\ last.cnt = Zero4 /\ ~last.changed)

(********************************** C2 *************************************)
\* C2: when reconcile runs on a node one of whose indexed child directories
\* is gone from disk, the child's row is deleted and the call ends without a
\* missing-path or reference-integrity error, whatever is indexed below the
\* child.
C2_StaleChildPruned ==
    [][ ( /\ ReindexStep
          /\ \E c \in dirs : c.parent = last'.node /\ ~exists(dirs, c) )
        => ( /\ last'.status \notin {"ProtectedError", "FileNotFoundError"}
             /\ \A c \in dirs :
                    (c.parent = last'.node /\ ~exists(dirs, c)) => c \notin dirs' )
      ]_vars

DiskBelow(p) ==
    { q \in FsPaths : /\ Len(q) > Len(p)
                      /\ SubSeq(q, 1, Len(p)) = p
                      /\ fs[q] # "none" }

\* the index below n equals the filesystem below n's path
InSync(D, F, n) ==
    /\ \A q \in DiskBelow(absolute_path(D, n)) :
          /\ fs[q] = "dir" =>
                Cardinality({ r \in DirsBelow(D, n) : absolute_path(D, r) = q }) = 1
          /\ (fs[q] = "file" /\ indexable(q[Len(q)])) =>
                Cardinality({ f \in FilesBelow(D, F, n) :
                                  file_absolute_path(D, f) = q }) = 1
    /\ StaleBelow(D, F, n) = {}

\* C4: whenever a recursive reconcile of a node returns, every directory on
\* disk below the node has exactly one Directory row, every indexable file
\* has exactly one File row, and every row below the node has a backing
\* path that exists on disk.
C4_InSyncAfterReconcile ==
    (ReindexDone /\ last.status = "ok" /\ last.recursively)
        => InSync(dirs, files, LastNode(dirs))

\* The same, when no Directory row below the node is backed by an entry that
\* is not a directory: the runs that refute C4 are those in which an indexed
\* directory was replaced on disk by a file of the same name.
C4_InSyncUnlessRetyped ==
    ( /\ ReindexDone /\ last.status = "ok" /\ last.recursively
      /\ \A r \in DirsBelow(dirs, LastNode(dirs)) :
             FsKind(absolute_path(dirs, r)) \in {"dir", "none"} )
        => InSync(dirs, files, LastNode(dirs))

(********************************** C5 *************************************)
\* C5: reconcile creates a File row only for a file whose suffix, compared
\* case-insensitively, is in the allow-list {mp3, ogg, flac}: cover.jpg never
\* becomes a File row, and when a reconcile returns, t.flac and S.MP3 have a
\* File row wherever the call found them as regular files.
C5_IndexabilityFilter ==
    [][ last'.op = "reindex" =>
          /\ \A f \in files' \ files :
                 f.filename \in {TrackFlac, SongMP3} /\ f.filename # CoverJpg
          /\ last'.status = "ok" =>
                 \A q \in DiskBelow(absolute_path(dirs, Row(dirs, last'.node))) :
                     ( /\ fs[q] = "file"
                       /\ q[Len(q)] \in {TrackFlac, SongMP3}
                       /\ \/ last'.recursively
                          \/ Parent(q) = absolute_path(dirs, Row(dirs, last'.node)) )
                     => \E f \in files' : file_absolute_path(dirs', f) = q
      ]_vars

\* a reconcile of the base directory has just indexed t.flac and S.MP3 while
\* cover.jpg lies on disk as a regular file
C5_Witness ==
    /\ last.op = "reindex"
    /\ last.status = "ok"
    /\ last.node = BaseDirId
    /\ last.cnt[3] = 2
    /\ fs[<<CoverJpg>>] = "file"
    /\ { f.filename : f \in files } = {TrackFlac, SongMP3}

(********************************** C6 *************************************)
\* C6: after any sequence of reconcile and path-resolve calls, no two File
\* rows have the same (filename, directory) pair.
C6_FileUnique ==
    \A f \in files : \A g \in files :
        (f.filename = g.filename /\ f.directory = g.directory) => f = g

\* a reconcile has run again over a directory both of whose files are indexed
C6_Witness ==
    /\ last.op = "reindex"
    /\ last.repeats = "ok"
    /\ last.status = "ok"
    /\ Cardinality(files) = 2

(********************************** C7 *************************************)
\* the path of the first k segments of the last resolve call
SegPath(D, base, segs, k) == absolute_path(D, base) \o SubSeq(segs, 1, k)

NoRow == [id |-> None, parent |-> None, path |-> <<>>]

\* the row the index D holds for the first k segments below base, if any
RECURSIVE ChainRow(_, _, _, _)
ChainRow(D, base, segs, k) ==
    IF k = 0 THEN base
    ELSE LET par == ChainRow(D, base, segs, k - 1)
         IN  IF par = NoRow THEN NoRow
             ELSE IF \E r \in D : r.parent = par.id /\ r.path = segs[k]
             THEN CHOOSE r \in D : r.parent = par.id /\ r.path = segs[k]
             ELSE NoRow

\* C7 as claimed: when a segment of resolve(base, segments) has a path that
\* does not exist on disk, the call fails with the not-found error and
\* persists no Directory row for that segment or a later one.
C7_FailsOnMissingPath ==
    [][ ( /\ last'.op = "resolve"
          /\ \E k \in 1..Len(last'.segs) :
                 FsKind(SegPath(dirs, Row(dirs, last'.node), last'.segs, k)) = "none" )
        => ( /\ last'.status = "FileNotFoundError"
             /\ \A r \in dirs' \ dirs : FsKind(absolute_path(dirs', r)) # "none" )
      ]_vars

\* C7 as amended: when resolve reaches a segment that has no Directory row
\* and whose path does not exist on disk, it fails with the not-found error
\* and no Directory row is persisted for that segment or a later one.
C7_FailsOnUnindexedMissingPath ==
    [][ last'.op = "resolve" =>
          \A k \in 1..Len(last'.segs) :
              LET base == Row(dirs, last'.node)
                  par  == ChainRow(dirs', base, last'.segs, k - 1)
              IN  ( /\ par # NoRow
                    /\ ~ \E r \in dirs : r.parent = par.id /\ r.path = last'.segs[k]
                    /\ FsKind(SegPath(dirs, base, last'.segs, k)) = "none" )
                  => ( /\ last'.status = "FileNotFoundError"
                       /\ ChainRow(dirs', base, last'.segs, k) = NoRow
                       /\ \A r \in dirs' \ dirs :
                              FsKind(absolute_path(dirs', r)) # "none" )
      ]_vars

\* a resolve of two segments has saved a row for the first and failed on the
\* second, which is neither indexed nor on disk
C7_Witness ==
    /\ last.op = "resolve"
    /\ last.status = "FileNotFoundError"
    /\ Len(last.segs) = 2
    /\ last.changed
    /\ ChainRow(dirs, BaseDir, last.segs, 1) # NoRow
    /\ ChainRow(dirs, BaseDir, last.segs, 2) = NoRow

(********************************** C8 *************************************)
\* C8 as claimed: every Directory a successful resolve returns has a backing
\* path that exists on disk at the time of the call, whether the segment was
\* already indexed or was created by the call.
C8_ReturnedRowsExist ==
    (last.op = "resolve" /\ last.status = "ok")
        => \A i \in 1..Len(last.result) :
               FsKind(absolute_path(dirs, Row(dirs, last.result[i]))) # "none"

\* C8 as amended: resolve checks the filesystem only for the segments it has
\* to create: every row it creates has a backing path that exists on disk at
\* the time of the call, and a segment that is already indexed is returned
\* from the index without a check, also when its path is gone from disk.
C8_CreatedRowsExist ==
    [][ last'.op = "resolve" =>
          LET base == Row(dirs, last'.node)
              n    == Len(last'.segs)
          IN  /\ \A r \in dirs' \ dirs : FsKind(absolute_path(dirs', r)) # "none"
              /\ last'.status = "ok" =>
                     \A i \in 1..n :
                         /\ last'.result[i] = ChainRow(dirs', base, last'.segs, i).id
                         /\ \/ Row(dirs', last'.result[i]) \in dirs
                            \/ FsKind(SegPath(dirs, base, last'.segs, i)) # "none"
              /\ ChainRow(dirs, base, last'.segs, n) # NoRow =>
                     /\ last'.status = "ok"
                     /\ dirs' = dirs
      ]_vars

\* a resolve of two segments has succeeded and saved a row on the way
C8_Witness ==
    /\ last.op = "resolve"
    /\ last.status = "ok"
    /\ Len(last.result) = 2
    /\ last.changed

(********************************** C9 *************************************)
\* C9: under non-concurrent execution the first getOrCreateArtist call with
\* a given non-empty normalized name inserts exactly one Artist row, with
\* the caller's display name; every later call whose name normalizes to the
\* same key returns that row and inserts nothing; so at most one Artist row
\* exists per normalized key.
C9_ArtistDedup ==
    [][ /\ call'.op = "artist" =>
              LET name == call'.arg
                  key  == normalize_name(name)
              IN  (Truthy(name) /\ key # <<>>) =>
                      IF \E a \in artists : a.norm_name = key
                      THEN /\ artists' = artists
                           /\ \E a \in artists : a.norm_name = key /\ call'.ret = a.id
                      ELSE \E a \in artists' :
                              /\ a \notin artists
                              /\ artists' = artists \cup {a}
                              /\ a.name = name
                              /\ a.norm_name = key
                              /\ call'.ret = a.id
        /\ \A a \in artists' : \A b \in artists' :
               a.norm_name = b.norm_name => a = b
      ]_vars

\* a call has returned the row an earlier call, with another spelling of the
\* name, had inserted
C9_Witness ==
    /\ call.op = "artist"
    /\ call.ret # None
    /\ ~call.created
    /\ \E a \in artists : a.id = call.ret /\ a.name # call.arg

(********************************** C10 ************************************)
\* C10: no call of getOrCreateArtist, getOrCreateGenre or extract creates an
\* Artist or Genre row whose normalized name is empty.
C10_NoEmptyEntity ==
    /\ \A a \in artists : a.norm_name # <<>>
    /\ \A g \in genres : g.name # <<>>

\* The Artist half of C10, which Artist.get_for_name guards
C10_NoEmptyArtist == \A a \in artists : a.norm_name # <<>>

(********************************** C11 ************************************)
\* C11: extract on a file whose tags are unreadable returns null, raises
\* nothing, and leaves the MetaData, Artist, Album and Genre tables unchanged.
C11_NullSafety ==
    [][ (call'.op = "extract" /\ ~call'.arg.readable) =>
            /\ call'.status = "ok"
            /\ call'.ret = None
            /\ UNCHANGED <<artists, albums, genres, metas>>
      ]_vars

\* extract has returned null for an unreadable file while the tables hold
\* the rows of an earlier extraction
C11_Witness ==
    /\ call.op = "extract"
    /\ ~call.arg.readable
    /\ call.status = "ok"
    /\ call.ret = None
    /\ metas # {}
    /\ artists # {}

(********************************** C12 ************************************)
\* the text of a numeric tag field is absent or is not an integer
Unparsable(text) == ~Truthy(text) \/ ~IsInt(text)

\* C12: extract on a readable tag creates exactly one MetaData row and
\* raises nothing; a track, track_total or year that is absent or is not an
\* integer is left unset in that row.
C12_SoftNumbers ==
    [][ (call'.op = "extract" /\ call'.arg.readable) =>
            /\ call'.status = "ok"
            /\ \E m \in metas' :
                  /\ m \notin metas
                  /\ metas' = metas \cup {m}
                  /\ call'.ret = m.id
                  /\ Unparsable(call'.arg.track) => m.track = None
                  /\ Unparsable(call'.arg.track_total) => m.track_total = None
                  /\ Unparsable(call'.arg.year) => m.year = None
      ]_vars

\* The part of C12 the code keeps: an extraction that returns has created
\* exactly one MetaData row, with the absent numeric fields unset
C12_OneRowWhenReturned ==
    [][ (call'.op = "extract" /\ call'.arg.readable /\ call'.status = "ok") =>
            \E m \in metas' :
                /\ m \notin metas
                /\ metas' = metas \cup {m}
                /\ call'.ret = m.id
                /\ ~Truthy(call'.arg.track) => m.track = None
                /\ ~Truthy(call'.arg.track_total) => m.track_total = None
                /\ ~Truthy(call'.arg.year) => m.year = None
      ]_vars

(********************************** C13 ************************************)
\* C13: a run of reindexAllMissingMetadata stamps every File whose
\* meta_indexed_at is null, so that after the run no File has a null
\* meta_indexed_at; a file whose extraction failed is stamped with a null
\* metadata reference, the others with the MetaData row made for them; a run
\* that finds no File with a null meta_indexed_at performs no extraction.
C13_PermanentSkip ==
    [][ last'.op = "index" =>
            /\ call'.status = "ok"
            /\ \A f \in files' : f.meta_indexed_at # None
            /\ \A f \in files : f.meta_indexed_at = None =>
                  \E g \in files' :
                      /\ g.id = f.id
                      /\ \/ g.meta_data = None
                         \/ \E m \in metas' \ metas : g.meta_data = m.id
            /\ (\A f \in files : f.meta_indexed_at # None) =>
                  /\ call'.ret = 0
                  /\ UNCHANGED <<files, artists, albums, genres, metas>>
      ]_vars

\* The part of C13 the code keeps: a run that returns has stamped every File
C13_StampedWhenReturned ==
    [][ (last'.op = "index" /\ call'.status = "ok") =>
            /\ \A f \in files' : f.meta_indexed_at # None
            /\ call'.ret = Cardinality({ f \in files : f.meta_indexed_at = None })
            /\ \A f \in files : f.meta_indexed_at = None =>
                  \E g \in files' :
                      /\ g.id = f.id
                      /\ \/ g.meta_data = None
                         \/ \E m \in metas' \ metas : g.meta_data = m.id
      ]_vars

\* a second run has found every File stamped, one of them with a null
\* metadata reference, and has made no extraction
C13_SecondRunIdle ==
    /\ last.op = "index"
    /\ call.status = "ok"
    /\ call.ret = 0
    /\ files # {}
    /\ \E f \in files : f.meta_indexed_at # None /\ f.meta_data = None

(***************************** C14 .. C18 **********************************)
\* album art has just been asked for a path that is on disk
ArtStep == art'.op = "art" /\ FsKind(art'.path) # "none"

\* that path is a regular file whose tags hold no image
ArtStepOnBareFile ==
    ArtStep /\ FsKind(art'.path) = "file" /\ art'.image = "none"

\* the path whose cache file, folder and name the request goes on with
TargetPath(path) ==
    IF FsKind(path) = "file" THEN path \o <<DotDot>> ELSE path

\* the embedded image, the cache and the local scan have all found nothing
ArtStepPastLocal ==
    /\ ArtStep
    /\ FsKind(art'.path) = "file" => art'.image = "none"
    /\ ~CacheHas(cache, albumArtFilePath(TargetPath(art'.path)))
    /\ art'.local = "none"

(********************************** C14 ************************************)
\* C14: when album art is asked for an audio file without embedded art and
\* the cache entry of the file's parent directory, the one a request for
\* that directory reads and writes, holds bytes B, the request returns B
\* and runs neither the local scan nor the online fetch.
C14_ParentCacheShortCircuit ==
    [][ ( /\ ArtStepOnBareFile
          /\ CacheHas(cache, albumArtFilePath(Parent(art'.path))) ) =>
            /\ art'.status = "ok"
            /\ art'.data = CacheRead(cache, albumArtFilePath(Parent(art'.path)))
            /\ "local" \notin art'.steps
            /\ "online" \notin art'.steps
      ]_vars

\* The part of C14 the code keeps: the cache entry named after the path
\* with '..' appended short-circuits the local scan and the online fetch
C14_CacheShortCircuit ==
    [][ ( /\ ArtStepOnBareFile
          /\ CacheHas(cache, albumArtFilePath(art'.path \o <<DotDot>>)) ) =>
            /\ art'.status = "ok"
            /\ art'.data = CacheRead(cache, albumArtFilePath(art'.path \o <<DotDot>>))
            /\ "local" \notin art'.steps
            /\ "online" \notin art'.steps
            /\ cache' = cache
      ]_vars

\* a request for a track has been answered from the cache
C14_CacheHitForTrack ==
    /\ art.op = "art"
    /\ FsKind(art.path) = "file"
    /\ art.image = "none"
    /\ art.steps = {"embedded", "cache"}
    /\ art.status = "ok"

(********************************** C15 ************************************)
\* C15: when the path is a regular file whose tags hold an embedded image,
\* the request returns that image whatever the cache holds; the cache, the
\* local scan and the online fetch are not consulted.
C15_EmbeddedFirst ==
    [][ (ArtStep /\ FsKind(art'.path) = "file" /\ art'.image = "image") =>
            /\ art'.status = "ok"
            /\ art'.data = Image("embedded", art'.path)
            /\ art'.steps = {"embedded"}
            /\ cache' = cache
      ]_vars

\* the embedded image was returned while the cache held an entry for the
\* track's folder under either name
C15_Witness ==
    /\ art.op = "art"
    /\ FsKind(art.path) = "file"
    /\ art.image = "image"
    /\ art.data.kind = "embedded"
    /\ CacheHas(cache, albumArtFilePath(art.path \o <<DotDot>>))
    /\ CacheHas(cache, albumArtFilePath(Parent(art.path)))

(********************************** C16 ************************************)
\* C16: a request writes the cache entry of its target path exactly when
\* the local scan returned an image it had to resize or the online fetch
\* returned an image, and then it writes the bytes it returns; every other
\* outcome leaves the whole cache unchanged, and no request writes the
\* cache entry of another path.
C16_CacheWrites ==
    [][ art'.op = "art" =>
            LET key    == albumArtFilePath(TargetPath(art'.path))
                writes == \/ ("local" \in art'.steps /\ art'.local = "resized")
                          \/ ("online" \in art'.steps /\ art'.online = "hit")
            IN  IF writes
                THEN /\ art'.status = "ok"
                     /\ [path |-> key, data |-> art'.data] \in cache'
                     /\ \A e \in cache' : e.path = key => e.data = art'.data
                     /\ { e \in cache' : e.path # key } = { e \in cache : e.path # key }
                ELSE cache' = cache
      ]_vars

\* a request for a track has fetched an image online and written it to the
\* cache, which already held another entry
C16_Witness ==
    /\ art.op = "art"
    /\ FsKind(art.path) = "file"
    /\ "online" \in art.steps
    /\ art.status = "ok"
    /\ [path |-> albumArtFilePath(art.path \o <<DotDot>>), data |-> art.data] \in cache
    /\ Cardinality(cache) > 1

(********************************** C17 ************************************)
\* C17: the online source is queried only after the embedded image, the
\* cache and the local scan have found nothing and only when
\* media.fetch_album_art is enabled, which by default it is not; when it is
\* disabled, or the fetch fails or returns nothing, the request ends as not
\* found and with no other error.
C17_OnlineLastAndGated ==
    [][ art'.op = "art" =>
            LET enabled == \E o \in art'.config :
                               o.key = FetchAlbumArt /\ o.value = TRUE
            IN  /\ "online" \in art'.steps => (ArtStepPastLocal /\ enabled)
                /\ (ArtStepPastLocal /\ enabled) => "online" \in art'.steps
                /\ ( /\ ArtStepPastLocal
                      /\ (~enabled \/ art'.online \in {"error", "none"}) ) =>
                        /\ art'.status = "Http404"
                        /\ cache' = cache
      ]_vars

\* the online fetch has failed and the request has ended as not found
C17_Witness ==
    /\ art.op = "art"
    /\ "online" \in art.steps
    /\ art.online = "error"
    /\ art.status = "Http404"

(********************************** C18 ************************************)
\* C18: when the path is a regular file whose tags cannot be read, the
\* request does not end with the tag error: it goes on to the cache, the
\* local scan and the online fetch of the parent directory as if the file
\* held no image.
C18_TagErrorIsNoImage ==
    (art.op = "art" /\ FsKind(art.path) = "file" /\ art.image = "unreadable") =>
        /\ art.status \in {"ok", "Http404"}
        /\ "cache" \in art.steps

(********************************** C19 ************************************)
\* C19: Artist get-or-create is not atomic.  A request whose lookup found no
\* row of its normalized key inserts its row when it comes to the insert,
\* whatever rows of that key other requests have inserted in between; so two
\* concurrent first calls with names of one normalized key can leave two
\* Artist rows with the same norm_name (C19_Witness).
C19_InsertAfterStaleLookup ==
    [][ \A p \in Procs :
          (procs[p].pc = "create" /\ procs'[p].pc = "done") =>
              \E a \in artists' :
                  /\ a \notin artists
                  /\ artists' = artists \cup {a}
                  /\ a.id = procs'[p].ret
                  /\ a.name = procs[p].arg
                  /\ a.norm_name = normalize_name(procs[p].arg)
      ]_vars

\* two requests have returned, each with the row it inserted, and the two
\* rows have the same norm_name
C19_Witness ==
    \E p \in Procs : \E q \in Procs :
        /\ p # q
        /\ procs[p].pc = "done"
        /\ procs[q].pc = "done"
        /\ \E a \in artists : \E b \in artists :
              /\ a.id = procs[p].ret
              /\ b.id = procs[q].ret
              /\ a # b
              /\ a.norm_name = b.norm_name
              /\ Cardinality(artists) = 2

(********************************** C20 ************************************)
\* C20: whatever way concurrent path resolutions and reindex runs below one
\* parent directory interleave, no two Directory rows have the same parent
\* and path, so a lookup of a child by parent and path finds at most one row.
C20_DirectoryUnique ==
    \A r1 \in dirs : \A r2 \in dirs :
        (r1.parent = r2.parent /\ r1.path = r2.path) => r1 = r2

====
